---------------------------- MODULE Spec2Model ----------------------------
(***************************************************************************)
(* The TaskExecutionAbciApp of packages/valory/skills/task_execution_abci: *)
(* the collection round TaskExecutionRound, its evaluation end_block, the  *)
(* two degenerate final rounds and the transition function.                *)
(*                                                                         *)
(* The round framework the skill builds on (abstract_round_abci.base: the  *)
(* collection, the threshold and majority predicates, the synchronized     *)
(* data, AbciApp.process_event) is not part of the sources; it is modelled *)
(* from the specification document.                                        *)
(***************************************************************************)
EXTENDS Integers, Sequences, FiniteSets, TLC

VARIABLES
    current_round,   \* name of the class of the AbciApp's current round
    collection,      \* the current round instance's ledger: a sequence of
                     \* [sender, content] entries in insertion order
    db,              \* the synchronized data (replicated snapshot): key -> value
    round_count,     \* number of round instances scheduled after the first
    last             \* the most recent handler call: what it was given and
                     \* what it produced

vars == <<current_round, collection, db, round_count, last>>

(***************************************************************************)
(* Bounds of the model.                                                    *)
(***************************************************************************)
MaxParticipants == 3
MaxRoundCount == 2
MaxDecodeParticipants == 2

(***************************************************************************)
(* Event (rounds.py, class Event).                                         *)
(***************************************************************************)
ROUND_TIMEOUT == "round_timeout"
NO_MAJORITY == "no_majority"
DONE == "done"
ERROR == "error"
Event == {ROUND_TIMEOUT, NO_MAJORITY, DONE, ERROR}

(***************************************************************************)
(* The rounds of the application.                                          *)
(***************************************************************************)
TaskExecutionRound == "TaskExecutionRound"
FinishedTaskExecutionRound == "FinishedTaskExecutionRound"
FinishedTaskExecutionWithErrorRound == "FinishedTaskExecutionWithErrorRound"
AppStates ==
    {TaskExecutionRound, FinishedTaskExecutionRound,
     FinishedTaskExecutionWithErrorRound}

\* TaskExecutionAbciApp.initial_round_cls
initial_round_cls == TaskExecutionRound

\* TaskExecutionAbciApp.final_states
final_states == {FinishedTaskExecutionRound, FinishedTaskExecutionWithErrorRound}

\* A table that lost its ROUND_TIMEOUT entry.
transition_function_no_timeout ==
    [r \in AppStates |->
        IF r = TaskExecutionRound
        THEN (DONE :> FinishedTaskExecutionRound)
             @@ (NO_MAJORITY :> TaskExecutionRound)
             @@ (ERROR :> FinishedTaskExecutionWithErrorRound)
        ELSE <<>>]

\* A table whose DONE and ERROR targets are exchanged.
transition_function_swapped ==
    [r \in AppStates |->
        IF r = TaskExecutionRound
        THEN (DONE :> FinishedTaskExecutionWithErrorRound)
             @@ (NO_MAJORITY :> TaskExecutionRound)
             @@ (ROUND_TIMEOUT :> TaskExecutionRound)
             @@ (ERROR :> FinishedTaskExecutionRound)
        ELSE <<>>]

\* A table in which the success-terminal round has an outgoing edge.
transition_function_leaky ==
    [r \in AppStates |->
        IF r = TaskExecutionRound
        THEN (DONE :> FinishedTaskExecutionRound)
             @@ (NO_MAJORITY :> TaskExecutionRound)
             @@ (ROUND_TIMEOUT :> TaskExecutionRound)
             @@ (ERROR :> FinishedTaskExecutionWithErrorRound)
        ELSE IF r = FinishedTaskExecutionRound
        THEN (ROUND_TIMEOUT :> TaskExecutionRound)
             @@ (DONE :> FinishedTaskExecutionWithErrorRound)
        ELSE (ROUND_TIMEOUT :> TaskExecutionRound)]

\* TaskExecutionAbciApp.transition_function: round -> (event -> next round).
\* The final rounds map to the empty dictionary.
transition_function ==
    [r \in AppStates |->
        IF r = TaskExecutionRound
        THEN (DONE :> FinishedTaskExecutionRound)
             @@ (NO_MAJORITY :> TaskExecutionRound)
             @@ (ROUND_TIMEOUT :> TaskExecutionRound)
             @@ (ERROR :> FinishedTaskExecutionWithErrorRound)
        ELSE <<>>]

(***************************************************************************)
(* Payload contents.  A content is a text: either a text that is no JSON   *)
(* document (the error sentinel is one) or the text of a JSON object,      *)
(* given by its members in the order they are written.                     *)
(***************************************************************************)
ERROR_PAYLOAD == "error"

PlainText(s) == [json |-> FALSE, text |-> s, members |-> <<>>]
ObjectText(m) == [json |-> TRUE, text |-> "", members |-> m]

Envelope(request_id, task_result) ==
    ObjectText(<< <<"request_id", request_id>>, <<"task_result", task_result>> >>)

\* The contents an honest payload constructor produces: the error sentinel
\* or a result envelope.
WellFormedContents ==
    {PlainText(ERROR_PAYLOAD)}
    \cup {Envelope("r1", "ok1"), Envelope("r2", "ok2")}

\* Contents that break the envelope contract: no JSON at all, or an object
\* with a field missing.
MalformedContents ==
    {PlainText("garbage"),
     ObjectText(<< <<"request_id", "r1">> >>),
     ObjectText(<< <<"task_result", "ok1">> >>)}

\* json.loads(content): the dictionary of a JSON object (a repeated key keeps
\* its last value), or a decode failure.
json_loads(content) ==
    IF content.json
    THEN LET m == content.members
             keys == {m[i][1] : i \in 1..Len(m)}
             lastIndex(k) ==
                 CHOOSE i \in 1..Len(m) :
                     /\ m[i][1] = k
                     /\ \A j \in 1..Len(m) : m[j][1] = k => j <= i
         IN [ok |-> TRUE, value |-> [k \in keys |-> m[lastIndex(k)][2]]]
    ELSE [ok |-> FALSE, value |-> <<>>]

(***************************************************************************)
(* Synchronized data (BaseSynchronizedData and SynchronizedData).          *)
(***************************************************************************)
\* BaseSynchronizedData.max_participants: the size of the full participant set.
max_participants(sd) == Cardinality(sd["all_participants"])

\* BaseSynchronizedData.nb_participants: the number of participants.
nb_participants(sd) == Cardinality(sd["participants"])

\* BaseSynchronizedData.update(**kwargs): a new value, the old one with the
\* given key set.
update(sd, key, value) == (key :> value) @@ sd

\* SynchronizedData.finished_task_data is readable (get_strict succeeds)
\* only once the key is set.
finished_task_data_set(sd) == "finished_task_data" \in DOMAIN sd

(***************************************************************************)
(* The collected-payload ledger (CollectDifferentUntilAllRound).           *)
(***************************************************************************)
Senders(coll) == {coll[i].sender : i \in 1..Len(coll)}

\* A record that appends without looking for the sender's earlier entry.
record_append(coll, sender, content) ==
    Append(coll, [sender |-> sender, content |-> content])

\* record(sender, payload): insert, or overwrite the sender's entry in place
\* (a dictionary keeps a key's first insertion position).
record(coll, sender, content) ==
    IF sender \in Senders(coll)
    THEN [i \in 1..Len(coll) |->
             IF coll[i].sender = sender
             THEN [sender |-> sender, content |-> content]
             ELSE coll[i]]
    ELSE Append(coll, [sender |-> sender, content |-> content])

\* collection_threshold_reached: every participant has reported.
collection_threshold_reached(coll, sd) == Len(coll) = nb_participants(sd)

\* consensus_threshold(nb) = ceil((2 * nb + 1) / 3)
consensus_threshold(nb) == (2 * nb + 1 + 2) \div 3

\* is_majority_possible(votes_by_participant, nb_participants): the most
\* voted payload, joined by every outstanding vote, can still reach the
\* consensus threshold.  The votes are the payloads themselves, sender
\* included.
is_majority_possible(coll, nb) ==
    LET votes(i) == Cardinality({j \in 1..Len(coll) : coll[j] = coll[i]})
        largest_nb_votes ==
            IF Len(coll) = 0 THEN 0
            ELSE CHOOSE v \in {votes(i) : i \in 1..Len(coll)} :
                     \A i \in 1..Len(coll) : votes(i) <= v
        nb_remaining_votes == nb - Len(coll)
    IN nb_remaining_votes + largest_nb_votes >= consensus_threshold(nb)

(***************************************************************************)
(* TaskExecutionRound.end_block.                                           *)
(***************************************************************************)
IsErrorPayload(content) == content = PlainText(ERROR_PAYLOAD)

\* rounds.py 71-77: the number of entries whose content is the sentinel.
num_errors(coll) == Len(SelectSeq(coll, LAMBDA p : IsErrorPayload(p.content)))

\* The loop without its "continue": error entries are kept as ok entries.
ok_payloads_no_continue(coll) == coll

\* The ok entries put in the order of the sender identities instead of the
\* order of arrival.
ok_payloads_by_sender(coll) ==
    SortSeq(SelectSeq(coll, LAMBDA p : ~IsErrorPayload(p.content)),
            LAMBDA x, y : x.sender < y.sender)

\* rounds.py 72-78: the other entries, in the ledger's iteration order.
ok_payloads(coll) == SelectSeq(coll, LAMBDA p : ~IsErrorPayload(p.content))

\* The result of one evaluation: nothing (None), a (data, event) pair, or an
\* exception that leaves through the caller.
ReturnNone(sd) == [kind |-> "none", event |-> "none", data |-> sd]
Return(sd, event) == [kind |-> "event", event |-> event, data |-> sd]
Raise(sd) == [kind |-> "raise", event |-> "none", data |-> sd]

\* The request_id read from the last ok entry instead of the first.
payloads_json_last_id(ok) ==
    LET dec(i) == json_loads(ok[i].content)
    IN IF Len(ok) = 0
       THEN [ok |-> FALSE, value |-> <<>>]
       ELSE IF ~dec(Len(ok)).ok \/ "request_id" \notin DOMAIN dec(Len(ok)).value
       THEN [ok |-> FALSE, value |-> <<>>]
       ELSE IF \E i \in 1..Len(ok) :
                   ~dec(i).ok \/ "task_result" \notin DOMAIN dec(i).value
       THEN [ok |-> FALSE, value |-> <<>>]
       ELSE [ok |-> TRUE,
             value |-> [request_id |-> dec(Len(ok)).value["request_id"],
                        task_result |->
                            [i \in 1..Len(ok) |-> dec(i).value["task_result"]]]]

\* rounds.py 84-91: the aggregate, or the failure of a lookup or a decode.
payloads_json(ok) ==
    LET dec(i) == json_loads(ok[i].content)
    IN IF Len(ok) = 0
       THEN [ok |-> FALSE, value |-> <<>>]      \* list(ok_payloads)[0]
       ELSE IF ~dec(1).ok \/ "request_id" \notin DOMAIN dec(1).value
       THEN [ok |-> FALSE, value |-> <<>>]
       ELSE IF \E i \in 1..Len(ok) :
                   ~dec(i).ok \/ "task_result" \notin DOMAIN dec(i).value
       THEN [ok |-> FALSE, value |-> <<>>]
       ELSE [ok |-> TRUE,
             value |-> [request_id |-> dec(1).value["request_id"],
                        task_result |->
                            [i \in 1..Len(ok) |-> dec(i).value["task_result"]]]]

\* The unanimity test off by one: it never holds.
resolve_no_unanimity(coll, sd) ==
    LET agg == payloads_json(ok_payloads(coll))
    IN IF num_errors(coll) > max_participants(sd)
       THEN Return(sd, ERROR)
       ELSE IF ~agg.ok
       THEN Raise(sd)
       ELSE Return(update(sd, "finished_task_data", agg.value), DONE)

\* The snapshot is updated before the unanimity test, with what there is.
resolve_early_write(coll, sd) ==
    LET ok == ok_payloads(coll)
        agg == payloads_json(ok)
        early == update(sd, "finished_task_data",
                        IF agg.ok THEN agg.value
                        ELSE [task_result |-> <<>>])
    IN IF num_errors(coll) = max_participants(sd)
       THEN Return(early, ERROR)
       ELSE IF ~agg.ok
       THEN Raise(sd)
       ELSE Return(early, DONE)

\* The aggregation wrapped in a handler that absorbs the exception and
\* reports the round as failed.
resolve_swallowing(coll, sd) ==
    LET agg == payloads_json(ok_payloads(coll))
    IN IF num_errors(coll) = max_participants(sd)
       THEN Return(sd, ERROR)
       ELSE IF ~agg.ok
       THEN Return(sd, ERROR)
       ELSE Return(update(sd, "finished_task_data", agg.value), DONE)

\* The new snapshot built from scratch instead of from the old one: the
\* participants are lost.
resolve_rebuilding(coll, sd) ==
    LET agg == payloads_json(ok_payloads(coll))
    IN IF num_errors(coll) = max_participants(sd)
       THEN Return(sd, ERROR)
       ELSE IF ~agg.ok
       THEN Raise(sd)
       ELSE Return(("finished_task_data" :> agg.value)
                   @@ ("all_participants" :> sd["all_participants"]), DONE)

\* rounds.py 71-99: the threshold is reached.
resolve(coll, sd) ==
    LET agg == payloads_json(ok_payloads(coll))
    IN IF num_errors(coll) = max_participants(sd)
       THEN Return(sd, ERROR)
       ELSE IF ~agg.ok
       THEN Raise(sd)
       ELSE Return(update(sd, "finished_task_data", agg.value), DONE)

\* The negation of the feasibility test dropped.
defer_inverted(coll, sd) ==
    IF is_majority_possible(coll, nb_participants(sd))
    THEN Return(sd, NO_MAJORITY)
    ELSE ReturnNone(sd)

\* The feasibility test left out: the round always waits.
defer_wait(coll, sd) == ReturnNone(sd)

\* rounds.py 101-105: the threshold is not reached.
defer(coll, sd) ==
    IF ~is_majority_possible(coll, nb_participants(sd))
    THEN Return(sd, NO_MAJORITY)
    ELSE ReturnNone(sd)

\* What an evaluation hands back together with the ledger as it leaves it.
\* The code only reads self.collection (rounds.py 73, 102).
Leaving(result, coll) ==
    [kind |-> result.kind, event |-> result.event, data |-> result.data,
     collection |-> coll]

\* The threshold of a majority round: more than half instead of everyone.
end_block_majority(coll, sd) ==
    Leaving(IF 2 * Len(coll) > nb_participants(sd)
            THEN resolve(coll, sd)
            ELSE defer(coll, sd),
            coll)

\* The classification loop pops the entries it visits instead of reading
\* them: the ledger is left empty.
end_block_draining(coll, sd) ==
    Leaving(IF collection_threshold_reached(coll, sd)
            THEN resolve(coll, sd)
            ELSE defer(coll, sd),
            <<>>)

\* rounds.py 68-105
end_block(coll, sd) ==
    Leaving(IF collection_threshold_reached(coll, sd)
            THEN resolve(coll, sd)
            ELSE defer(coll, sd),
            coll)

(***************************************************************************)
(* The application: AbciApp driving the current round.                     *)
(***************************************************************************)
Call(op, sender, event, left) ==
    [op |-> op, sender |-> sender, event |-> event,
     round |-> current_round, collection |-> collection, db |-> db,
     round_count |-> round_count,
     left |-> left]   \* the ledger of the instance called, as the call left it

\* The value of round_count in behaviours that do not keep the count, so that
\* a round may be retried without end.
Uncounted == 0 - 1

\* AbciApp.schedule_round: a fresh instance of the next round class, with an
\* empty ledger, holding the snapshot handed over.
ScheduleRound(next_round, sd) ==
    /\ \/ next_round \in final_states
       \/ round_count < MaxRoundCount
    /\ current_round' = next_round
    /\ collection' = <<>>
    /\ db' = sd
    /\ round_count' = IF round_count = Uncounted THEN Uncounted
                      ELSE round_count + 1

\* AbciApp.process_event: look the event up in the current round's row; an
\* event without an entry changes nothing.
ProcessEvent(event, sd) ==
    IF event \in DOMAIN transition_function[current_round]
    THEN ScheduleRound(transition_function[current_round][event], sd)
    ELSE UNCHANGED <<current_round, collection, db, round_count>>

\* Delivery of one payload to the current round.  A final round accepts none.
DeliverTx(sender, content) ==
    IF current_round = TaskExecutionRound
    THEN /\ collection' = record(collection, sender, content)
         /\ last' = Call("deliver_tx", sender, "none", collection')
         /\ UNCHANGED <<current_round, db, round_count>>
    ELSE /\ last' = Call("deliver_tx", sender, "none", collection)
         /\ UNCHANGED <<current_round, collection, db, round_count>>

\* The end of a block: the current round is evaluated and the event it
\* returns, if any, is processed.  A final round has nothing to evaluate.
EndBlock ==
    IF current_round = TaskExecutionRound
    THEN LET res == end_block(collection, db)
         IN IF res.kind = "event"
            THEN /\ last' = Call("end_block", 0, res.event, res.collection)
                 /\ ProcessEvent(res.event, res.data)
            ELSE /\ last' = Call("end_block", 0,
                                 IF res.kind = "raise" THEN "raised" ELSE "none",
                                 res.collection)
                 /\ collection' = res.collection
                 /\ UNCHANGED <<current_round, db, round_count>>
    ELSE /\ last' = Call("end_block", 0, "none", collection)
         /\ UNCHANGED <<current_round, collection, db, round_count>>

\* The timeout signal, injected from outside as an event.
Timeout ==
    /\ last' = Call("timeout", 0, ROUND_TIMEOUT, collection)
    /\ ProcessEvent(ROUND_TIMEOUT, db)

InitWith(all, some, count) ==
    /\ current_round = initial_round_cls
    /\ collection = <<>>
    /\ db = ("all_participants" :> all) @@ ("participants" :> some)
    /\ round_count = count
    /\ last = [op |-> "init", sender |-> 0, event |-> "none",
               round |-> initial_round_cls, collection |-> <<>>,
               db |-> ("all_participants" :> all) @@ ("participants" :> some),
               round_count |-> count, left |-> <<>>]

InitFor(all, some) == InitWith(all, some, 0)

\* Every member of the participant set takes part in the round.
Init == \E n \in 1..MaxParticipants : InitFor(1..n, 1..n)

Next ==
    \/ \E sender \in db["all_participants"], content \in WellFormedContents :
           DeliverTx(sender, content)
    \/ EndBlock
    \/ Timeout

Spec == Init /\ [][Next]_vars

(***************************************************************************)
(* Properties.  "last" is the most recent handler call with the state it   *)
(* was made in; the other variables are the state it left.                 *)
(***************************************************************************)
\* The last call was an evaluation of the collection round.
Evaluated == last.op = "end_block" /\ last.round = TaskExecutionRound

ErrorEntries(coll) == {i \in 1..Len(coll) : IsErrorPayload(coll[i].content)}

FullLedger(coll, sd) == Len(coll) = nb_participants(sd)

\* C1: an evaluation of a ledger in which every participant has reported and
\* every entry is the error sentinel yields ERROR and hands on the snapshot
\* unchanged, finished_task_data not set.
C1_UnanimousError ==
    (/\ Evaluated
     /\ FullLedger(last.collection, last.db)
     /\ Cardinality(ErrorEntries(last.collection)) = Len(last.collection))
    => /\ last.event = ERROR
       /\ db = last.db
       /\ ~finished_task_data_set(db)

C1_Witness ==
    /\ Evaluated
    /\ FullLedger(last.collection, last.db)
    /\ Len(last.collection) >= 2
    /\ Cardinality(ErrorEntries(last.collection)) = Len(last.collection)
    /\ last.event = ERROR

\* C2: an evaluation of a full ledger with 0 < num_errors < nb_participants
\* yields DONE, and the task_result written to the snapshot has exactly
\* nb_participants - num_errors entries.
C2_PartialErrorsDone ==
    LET n == nb_participants(last.db)
        e == Cardinality(ErrorEntries(last.collection))
    IN (Evaluated /\ FullLedger(last.collection, last.db) /\ 0 < e /\ e < n)
       => /\ last.event = DONE
          /\ finished_task_data_set(db)
          /\ Len(db["finished_task_data"].task_result) = n - e

C2_Witness ==
    /\ Evaluated
    /\ FullLedger(last.collection, last.db)
    /\ Cardinality(ErrorEntries(last.collection)) = 1
    /\ Len(last.collection) = 3
    /\ last.event = DONE
    /\ Len(db["finished_task_data"].task_result) = 2

\* C3: an evaluation of a ledger with fewer entries than nb_participants for
\* which a majority is still feasible yields no event; the round instance and
\* its ledger stay as they were.
C3_PendingWhileFeasible ==
    (/\ Evaluated
     /\ Len(last.collection) < nb_participants(last.db)
     /\ is_majority_possible(last.collection, nb_participants(last.db)))
    => /\ last.event = "none"
       /\ current_round = TaskExecutionRound
       /\ round_count = last.round_count
       /\ collection = last.collection
       /\ db = last.db

C3_Witness ==
    /\ Evaluated
    /\ Len(last.collection) >= 1
    /\ Len(last.collection) < nb_participants(last.db)
    /\ is_majority_possible(last.collection, nb_participants(last.db))
    /\ last.event = "none"
    /\ collection = last.collection

\* C4: an evaluation of a ledger with fewer entries than nb_participants for
\* which a majority is infeasible yields NO_MAJORITY itself; no timeout
\* signal is involved.
C4_NoMajorityWhenInfeasible ==
    (/\ Evaluated
     /\ Len(last.collection) < nb_participants(last.db)
     /\ ~is_majority_possible(last.collection, nb_participants(last.db)))
    => last.event = NO_MAJORITY

C4_Witness ==
    /\ Evaluated
    /\ Len(last.collection) < nb_participants(last.db)
    /\ ~is_majority_possible(last.collection, nb_participants(last.db))
    /\ last.event = NO_MAJORITY

\* C5: an evaluation emits DONE or ERROR only if the ledger it evaluated holds
\* a payload from every participant.
C5_TerminalOnlyWhenAllReported ==
    (last.op = "end_block" /\ last.event \in {DONE, ERROR})
    => /\ Len(last.collection) = nb_participants(last.db)
       /\ Senders(last.collection) = last.db["participants"]

C5_Witness ==
    /\ last.op = "end_block"
    /\ last.event = DONE
    /\ nb_participants(last.db) >= 2
    /\ Senders(last.collection) = last.db["participants"]

\* C6: finished_task_data is set only by an evaluation that emits DONE, is
\* never written again once set, stays unset through every other call made
\* in the collection round (pending evaluations, ERROR, NO_MAJORITY,
\* ROUND_TIMEOUT), and when set holds both request_id and task_result.
C6_FinishedTaskDataWriteOnce ==
    /\ (finished_task_data_set(db) /\ ~finished_task_data_set(last.db))
       => (Evaluated /\ last.event = DONE)
    /\ finished_task_data_set(last.db) => db = last.db
    /\ (last.round = TaskExecutionRound /\ last.event # DONE)
       => ~finished_task_data_set(db)
    /\ current_round # FinishedTaskExecutionRound => ~finished_task_data_set(db)
    /\ finished_task_data_set(db)
       => DOMAIN db["finished_task_data"] = {"request_id", "task_result"}

C6_Witness ==
    /\ finished_task_data_set(last.db)
    /\ last.op \in {"timeout", "end_block", "deliver_tx"}
    /\ db = last.db
    /\ round_count >= 2

\* C7: from the collection round every event of the enum has exactly one next
\* round: DONE the success-terminal round, ERROR the failure-terminal round,
\* NO_MAJORITY and ROUND_TIMEOUT the collection round again; and an event
\* that occurs in the collection round takes the application there.
C7_TransitionTable ==
    /\ DOMAIN transition_function[TaskExecutionRound] = Event
    /\ (last.round = TaskExecutionRound /\ last.event \in Event)
       => /\ round_count = last.round_count + 1
          /\ current_round =
                CASE last.event = DONE -> FinishedTaskExecutionRound
                  [] last.event = ERROR -> FinishedTaskExecutionWithErrorRound
                  [] last.event = NO_MAJORITY -> TaskExecutionRound
                  [] last.event = ROUND_TIMEOUT -> TaskExecutionRound

C7_Witness ==
    /\ last.round = TaskExecutionRound
    /\ last.event = NO_MAJORITY
    /\ last.round_count >= 1
    /\ current_round = TaskExecutionRound

\* C8: the two final rounds are absorbing and carry no ledger: a payload, an
\* evaluation or a timeout signal that arrives there changes neither the
\* current round nor the snapshot, and no ledger appears.
C8_FinalRoundsAbsorbing ==
    /\ current_round \in final_states => collection = <<>>
    /\ last.round \in final_states
       => /\ current_round = last.round
          /\ db = last.db
          /\ round_count = last.round_count
          /\ collection = <<>>

C8_Witness ==
    /\ last.round = FinishedTaskExecutionWithErrorRound
    /\ last.op = "timeout"
    /\ current_round = FinishedTaskExecutionWithErrorRound

\* C9: when the collection round is re-entered after NO_MAJORITY or
\* ROUND_TIMEOUT (a timeout signal while the round is pending included), the
\* new instance starts with an empty ledger, so nothing submitted earlier
\* counts towards its threshold.
C9_FreshLedgerOnReentry ==
    (last.round = TaskExecutionRound /\ last.event \in {NO_MAJORITY, ROUND_TIMEOUT})
    => /\ current_round = TaskExecutionRound
       /\ round_count = last.round_count + 1
       /\ collection = <<>>
       /\ ~collection_threshold_reached(collection, db)

C9_Witness ==
    /\ last.op = "timeout"
    /\ last.round = TaskExecutionRound
    /\ Len(last.collection) >= 2
    /\ current_round = TaskExecutionRound
    /\ collection = <<>>

\* C10: the ledger has at most nb_participants entries, at most one per
\* participant identity, and within one round instance its set of senders
\* only grows.
C10_LedgerBounded ==
    /\ Len(collection) <= nb_participants(db)
    /\ Cardinality(Senders(collection)) = Len(collection)
    /\ (round_count = last.round_count /\ last.op # "init")
       => Senders(last.collection) \subseteq Senders(collection)

C10_Witness ==
    /\ last.op = "deliver_tx"
    /\ last.sender \in Senders(last.collection)
    /\ Len(collection) = nb_participants(db)
    /\ Len(collection) >= 2
    /\ collection # last.collection

(***************************************************************************)
(* What an unfinished ledger can still become.                             *)
(***************************************************************************)
RECURSIVE Completed(_, _, _)
\* The ledger after each outstanding participant has submitted f[sender], in
\* the order of the identities.
Completed(coll, outstanding, f) ==
    IF outstanding = {}
    THEN coll
    ELSE LET s == CHOOSE x \in outstanding : \A y \in outstanding : x <= y
         IN Completed(record(coll, s, f[s]), outstanding \ {s}, f)

\* Some submissions of the outstanding participants make the evaluation of
\* the same round instance yield DONE.
CanStillResolve(coll, sd) ==
    LET outstanding == sd["participants"] \ Senders(coll)
    IN \E f \in [outstanding -> WellFormedContents] :
           end_block(Completed(coll, outstanding, f), sd).event = DONE

C13_ReevaluationIdempotent ==
    (Evaluated /\ last.event = "none")
    => /\ current_round = last.round
       /\ round_count = last.round_count
       /\ collection = last.collection
       /\ db = last.db
       /\ end_block(collection, db).kind = "none"
       /\ end_block(collection, db).collection = collection

C13_Witness ==
    /\ Evaluated
    /\ last.event = "none"
    /\ Len(last.collection) >= 1
    /\ last.left = last.collection
    /\ end_block(collection, db).kind = "none"

(***************************************************************************)
(* The aggregate, read off the ledger entry by entry.                      *)
(***************************************************************************)
RECURSIVE ResultsInOrder(_)
\* The task_result fields of the entries that are not the sentinel, first
\* arrived first.
ResultsInOrder(coll) ==
    IF coll = <<>>
    THEN <<>>
    ELSE (IF IsErrorPayload(Head(coll).content)
          THEN <<>>
          ELSE <<json_loads(Head(coll).content).value["task_result"]>>)
         \o ResultsInOrder(Tail(coll))

\* Two sequences with the same elements, each as often.
SameElements(a, b) ==
    \A v \in {a[i] : i \in 1..Len(a)} \cup {b[i] : i \in 1..Len(b)} :
        Cardinality({i \in 1..Len(a) : a[i] = v})
            = Cardinality({i \in 1..Len(b) : b[i] = v})

Rearranged(coll, p) == [i \in 1..Len(coll) |-> coll[p[i]]]

\* C14: on DONE, task_result is the sequence of the ok entries' result fields
\* in the ledger's insertion order, error entries skipped; the same entries
\* arrived in any other order give a task_result with the same elements.
C14_TaskResultInArrivalOrder ==
    (Evaluated /\ last.event = DONE)
    => LET coll == last.collection
           task_result == db["finished_task_data"].task_result
       IN /\ task_result = ResultsInOrder(coll)
          /\ \A p \in Permutations(1..Len(coll)) :
                LET other == end_block(Rearranged(coll, p), last.db)
                IN /\ other.event = DONE
                   /\ SameElements(
                          other.data["finished_task_data"].task_result,
                          task_result)

C14_Witness ==
    /\ Evaluated
    /\ last.event = DONE
    /\ Len(last.collection) = 3
    /\ IsErrorPayload(last.collection[2].content)
    /\ last.collection[1].sender > last.collection[3].sender
    /\ db["finished_task_data"].task_result = <<"ok2", "ok1">>

\* The first entry of the ledger that is not the sentinel.
FirstOk(coll) ==
    coll[CHOOSE i \in 1..Len(coll) :
            /\ ~IsErrorPayload(coll[i].content)
            /\ \A j \in 1..(i - 1) : IsErrorPayload(coll[j].content)]

\* C15: on DONE, request_id is the request_id of the first ok entry in
\* insertion order; the other ok entries' request_ids are not compared, so a
\* full ledger with an ok entry yields DONE also when they differ.
C15_RequestIdOfFirstOk ==
    (/\ Evaluated
     /\ FullLedger(last.collection, last.db)
     /\ Cardinality(ErrorEntries(last.collection)) < Len(last.collection))
    => /\ last.event = DONE
       /\ db["finished_task_data"].request_id
              = json_loads(FirstOk(last.collection).content).value["request_id"]

C15_Witness ==
    /\ Evaluated
    /\ last.event = DONE
    /\ Len(last.collection) = 3
    /\ IsErrorPayload(last.collection[1].content)
    /\ last.collection[2].content = Envelope("r2", "ok2")
    /\ last.collection[3].content = Envelope("r1", "ok1")
    /\ db["finished_task_data"].request_id = "r2"

(***************************************************************************)
(* The application fed with contents that break the envelope contract.     *)
(***************************************************************************)
InitDecode == \E n \in 1..MaxDecodeParticipants : InitFor(1..n, 1..n)

NextDecode ==
    \/ \E sender \in db["all_participants"],
          content \in WellFormedContents \cup MalformedContents :
           DeliverTx(sender, content)
    \/ EndBlock
    \/ Timeout

SpecDecode == InitDecode /\ [][NextDecode]_vars

HasMember(content, key) ==
    \E i \in 1..Len(content.members) : content.members[i][1] = key

\* The content is the text of an object with both fields of the envelope.
IsEnvelope(content) ==
    /\ content.json
    /\ HasMember(content, "request_id")
    /\ HasMember(content, "task_result")

OkContents(coll) ==
    {coll[i].content : i \in 1..Len(coll)} \ {PlainText(ERROR_PAYLOAD)}

\* The last call evaluated a full ledger that holds an ok entry.
EvaluatedForAggregation ==
    /\ Evaluated
    /\ FullLedger(last.collection, last.db)
    /\ OkContents(last.collection) # {}

\* The evaluation ended in an exception: no event, nothing written.
FailedLoudly ==
    /\ last.event = "raised"
    /\ db = last.db
    /\ ~finished_task_data_set(db)
    /\ current_round = TaskExecutionRound
    /\ round_count = last.round_count

\* C16 as stated: with the threshold reached and not every entry an error,
\* an ok entry that is no envelope with request_id and task_result makes the
\* evaluation fail: no event, finished_task_data not written.
C16_AnyBrokenEntryFails ==
    (/\ EvaluatedForAggregation
     /\ \E c \in OkContents(last.collection) : ~IsEnvelope(c))
    => FailedLoudly

\* What the aggregation reads: every ok entry's task_result, and the
\* request_id of the first ok entry alone.
AggregationBreaks(coll) ==
    \/ \E c \in OkContents(coll) : ~c.json \/ ~HasMember(c, "task_result")
    \/ ~HasMember(FirstOk(coll).content, "request_id")

\* C16, amended: the evaluation fails, with no event and nothing written,
\* exactly when some ok entry is no JSON object or lacks task_result, or the
\* first ok entry lacks request_id; a later ok entry that lacks only
\* request_id goes unnoticed and DONE is emitted.
C16_DecodeFailurePropagates ==
    EvaluatedForAggregation
    => IF AggregationBreaks(last.collection)
       THEN FailedLoudly
       ELSE last.event = DONE /\ finished_task_data_set(db)

C16_Witness ==
    /\ EvaluatedForAggregation
    /\ Len(last.collection) = 2
    /\ last.collection[1].content = Envelope("r1", "ok1")
    /\ last.collection[2].content = ObjectText(<< <<"request_id", "r1">> >>)
    /\ FailedLoudly

\* C17: an evaluation leaves the ledger as it found it; on DONE the snapshot
\* handed on is the old one with finished_task_data added and every other
\* field as before; on ERROR, NO_MAJORITY or no event it is the old snapshot.
C17_EvaluationFrame ==
    Evaluated
    => /\ last.left = last.collection
       /\ last.event = DONE
          => /\ ~finished_task_data_set(last.db)
             /\ DOMAIN db = DOMAIN last.db \cup {"finished_task_data"}
             /\ \A k \in DOMAIN last.db : db[k] = last.db[k]
       /\ last.event # DONE => db = last.db
       /\ last.event \in {"none", "raised"} => collection = last.collection

C17_Witness ==
    /\ Evaluated
    /\ last.event = DONE
    /\ Len(last.left) >= 2
    /\ last.left = last.collection
    /\ db # last.db
    /\ db["participants"] = last.db["participants"]

(***************************************************************************)
(* The application with a participant set larger than the set of the       *)
(* participants taking part: nb_participants <= max_participants.          *)
(***************************************************************************)
InitPair ==
    \E n \in 1..MaxParticipants : \E k \in 1..n : InitFor(1..n, 1..k)

SpecPair == InitPair /\ [][Next]_vars

InitLive == \E n \in 1..MaxParticipants : InitWith(1..n, 1..n, Uncounted)

\* A participant that has not reported in the current instance submits.
SubmitOutstanding ==
    /\ current_round = TaskExecutionRound
    /\ \E sender \in db["participants"] \ Senders(collection),
          content \in WellFormedContents :
           DeliverTx(sender, content)

NextLive ==
    \/ \E sender \in db["all_participants"], content \in WellFormedContents :
           DeliverTx(sender, content)
    \/ EndBlock

SpecLive ==
    /\ InitLive
    /\ [][NextLive]_vars
    /\ WF_vars(SubmitOutstanding)
    /\ WF_vars(EndBlock)

C20_EmptyLedgerStaysPending ==
    /\ (Evaluated /\ last.collection = <<>>)
       => /\ last.event = "none"
          /\ current_round = TaskExecutionRound
          /\ round_count = last.round_count
    /\ (Evaluated /\ last.event = NO_MAJORITY) => Len(last.collection) >= 1

C20_Witness ==
    /\ Evaluated
    /\ last.collection = <<>>
    /\ last.round_count >= 1
    /\ last.event = "none"
    /\ nb_participants(db) >= 2

=============================================================================
